---- MODULE Spec2Model ----
(***************************************************************************)
(* A model of the expression rewriting system `ers`: the Expression tree,  *)
(* the pattern matcher (matching.rs), the binder (binding.rs) and the      *)
(* rewriter (expression/mod.rs).                                           *)
(***************************************************************************)
EXTENDS Integers, Sequences, FiniteSets, TLC

VARIABLES
  op,        \* the public operation that is called
  e, p, t,   \* its arguments: the subject (self), the pattern, the template
  pc,        \* where the call is: "start", "loop", "done", "returned", "panicked"
  mres,      \* what match_pattern returned
  ret,       \* the tree a rewriting operation returned
  expr,      \* replace_repeated: let mut expr
  limit,     \* replace_repeated: let mut limit
  replaced,  \* replace_repeated: the flag of the last pass
  input,     \* the text handed to the parser, a sequence of characters
  pres       \* what Parser::parse returned

vars == <<op, e, p, t, pc, mres, ret, expr, limit, replaced, input, pres>>

(***************************************************************************)
(* Bounds of the model.                                                    *)
(***************************************************************************)
\* longest subject list handed to the matcher
MaxSubjLen == 3
\* longest pattern list handed to the matcher
MaxPatLen == 3
\* longest list in the generated subjects of replace and replace_all
MaxRwLen == 2
\* largest tree (in nodes) whose shape replace_repeated's model keeps
MaxNodes == 8
\* longest template list handed to bind
MaxTplLen == 3
\* longest run a variable of the map handed to bind is bound to
MaxRunLen == 2

(***************************************************************************)
(* enum Expression (expression/mod.rs).  Every variant is a record of the  *)
(* same shape: k is the variant, s the String of Atom/Pattern*, es the     *)
(* children of List.                                                       *)
(***************************************************************************)
List(es) == [k |-> "List", s |-> "", es |-> es]
Atom(s) == [k |-> "Atom", s |-> s, es |-> <<>>]
Blank == [k |-> "Blank", s |-> "", es |-> <<>>]
BlankSeq == [k |-> "BlankSeq", s |-> "", es |-> <<>>]
BlankNullSeq == [k |-> "BlankNullSeq", s |-> "", es |-> <<>>]
Pattern(s) == [k |-> "Pattern", s |-> s, es |-> <<>>]
PatternSeq(s) == [k |-> "PatternSeq", s |-> s, es |-> <<>>]
PatternNullSeq(s) == [k |-> "PatternNullSeq", s |-> s, es |-> <<>>]

(***************************************************************************)
(* enum Binding (binding.rs): Expression(&e) is kept as the one-element    *)
(* run <<e>>, Sequence(&[..]) as the run itself.                           *)
(***************************************************************************)
BindingExpression(x) == [k |-> "Expression", es |-> <<x>>]
BindingSequence(xs) == [k |-> "Sequence", es |-> xs]

(***************************************************************************)
(* HashMap<String, Binding>: a function whose domain is the set of keys.   *)
(***************************************************************************)
HashMap_new == [x \in {} |-> BindingSequence(<<>>)]
insert(bs, key, val) ==
  [x \in (DOMAIN bs) \cup {key} |-> IF x = key THEN val ELSE bs[x]]
\* for (key, val) in h.iter() { bs.insert(key.clone(), val.clone()); }
insert_all(bs, h) ==
  [x \in (DOMAIN bs) \cup (DOMAIN h) |-> IF x \in DOMAIN h THEN h[x] ELSE bs[x]]

\* &es[i..] and &es[0..i]
SliceFrom(es, i) == SubSeq(es, i + 1, Len(es))
SliceTo(es, i) == SubSeq(es, 1, i)

(***************************************************************************)
(* matching.rs.  A matcher call returns whether it matched and the map bs  *)
(* as the call left it (bs is a &mut parameter in the source).             *)
(***************************************************************************)
RECURSIVE match_expression(_, _, _)
RECURSIVE match_seq(_, _, _)
RECURSIVE blank_for(_, _, _, _)
RECURSIVE pattern_for(_, _, _, _, _)

\* for i in (lo..es.len() + 1) of the BlankSeq / BlankNullSeq arms, from i on
blank_for(es, ps, bs, i) ==
  IF i > Len(es) THEN [ok |-> FALSE, bs |-> bs]
  ELSE LET r == match_seq(SliceFrom(es, i), Tail(ps), bs)
       IN  IF r.ok THEN r ELSE blank_for(es, ps, r.bs, i + 1)

\* for i in (lo..es.len() + 1) of the PatternSeq / PatternNullSeq arms, from i on
pattern_for(es, ps, bs, s, i) ==
  IF i > Len(es) THEN [ok |-> FALSE, bs |-> bs]
  ELSE LET h == insert(HashMap_new, s, BindingSequence(SliceTo(es, i)))
           r == match_seq(SliceFrom(es, i), Tail(ps), h)
       IN  IF r.ok THEN [ok |-> TRUE, bs |-> insert_all(bs, r.bs)]
           ELSE pattern_for(es, ps, bs, s, i + 1)

match_expression(x, pat, bs) ==
  CASE pat.k \in {"Blank", "BlankSeq", "BlankNullSeq"} -> [ok |-> TRUE, bs |-> bs]
    [] pat.k = "Pattern" ->
         [ok |-> TRUE, bs |-> insert(bs, pat.s, BindingExpression(x))]
    [] x.k = "Atom" /\ pat.k = "Atom" -> [ok |-> x.s = pat.s, bs |-> bs]
    [] x.k = "List" /\ pat.k = "List" -> match_seq(x.es, pat.es, bs)
    [] OTHER -> [ok |-> FALSE, bs |-> bs]

match_seq(es, ps, bs) ==
  IF Len(ps) = 0 THEN [ok |-> Len(es) = 0, bs |-> bs]
  ELSE CASE ps[1].k = "BlankSeq" -> blank_for(es, ps, bs, 1)
         [] ps[1].k = "BlankNullSeq" ->
              IF Len(es) = 0 THEN [ok |-> TRUE, bs |-> bs]
              ELSE blank_for(es, ps, bs, 0)
         [] ps[1].k = "PatternSeq" -> pattern_for(es, ps, bs, ps[1].s, 1)
         [] ps[1].k = "PatternNullSeq" ->
              IF Len(es) = 0
              THEN [ok |-> TRUE, bs |-> insert(bs, ps[1].s, BindingSequence(es))]
              ELSE pattern_for(es, ps, bs, ps[1].s, 0)
         [] OTHER ->
              IF Len(es) = 0 THEN [ok |-> FALSE, bs |-> bs]
              ELSE LET r == match_expression(es[1], ps[1], bs)
                   IN  IF r.ok THEN match_seq(Tail(es), Tail(ps), r.bs) ELSE r

\* Option<HashMap<String, Binding>>
NoBindings == [some |-> FALSE, bs |-> HashMap_new]
match_pattern(x, pat) ==
  LET r == match_expression(x, pat, HashMap_new)
  IN  IF r.ok THEN [some |-> TRUE, bs |-> r.bs] ELSE NoBindings

\* Result<Expression, ParserError>, before the parser has run
NotParsed == [res |-> "none", v |-> Blank]

\* Option<Expression>
NoTree == [some |-> FALSE, v |-> Blank]
SomeTree(x) == [some |-> TRUE, v |-> x]

(***************************************************************************)
(* A tree of more than MaxNodes nodes.  The model keeps no shape for it:   *)
(* it is a List of which nothing else is known, and only the steps of the  *)
(* code that do not look into the subject are taken on it.                 *)
(***************************************************************************)
TooBig == [k |-> "TooBig", s |-> "", es |-> <<>>]

RECURSIVE Size(_)
RECURSIVE SizeAll(_)
Size(x) ==
  IF x.k = "List" THEN 1 + SizeAll(x.es)
  ELSE IF x.k = "TooBig" THEN MaxNodes + 1
  ELSE 1
SizeAll(es) == IF Len(es) = 0 THEN 0 ELSE Size(es[1]) + SizeAll(Tail(es))
Kept(x) == IF Size(x) > MaxNodes THEN TooBig ELSE x

(***************************************************************************)
(* impl Clone for Expression (expression/mod.rs)                           *)
(***************************************************************************)
RECURSIVE clone(_)
clone(x) ==
  CASE x.k = "List" -> List([i \in 1..Len(x.es) |-> clone(x.es[i])])
    [] x.k = "Atom" -> Atom(x.s)
    [] x.k = "Blank" -> Blank
    [] x.k = "BlankSeq" -> BlankSeq
    [] x.k = "BlankNullSeq" -> BlankNullSeq
    [] x.k = "Pattern" -> Pattern(x.s)
    [] x.k = "PatternSeq" -> PatternSeq(x.s)
    [] x.k = "PatternNullSeq" -> PatternNullSeq(x.s)
    [] OTHER -> x

(***************************************************************************)
(* binding.rs                                                              *)
(***************************************************************************)
RECURSIVE bind(_, _)
RECURSIVE bind_slice(_, _)

\* impl Bind for Expression
bind(x, bs) ==
  CASE x.k = "Atom" ->
         IF x.s \in DOMAIN bs
         THEN IF bs[x.s].k = "Sequence"
              THEN List(<<Atom("Sequence")>>
                          \o [i \in 1..Len(bs[x.s].es) |-> clone(bs[x.s].es[i])])
              ELSE clone(bs[x.s].es[1])
         ELSE Atom(x.s)
    [] x.k = "List" -> List(bind_slice(x.es, bs))
    [] OTHER -> x

\* the splice gone wrong: a run is put in as one element, the way bind
\* wraps it at the root
bind_slice_NoSplice(es, bs) ==
  IF Len(es) = 0 THEN <<>>
  ELSE <<bind(es[1], bs)>> \o bind_slice(Tail(es), bs)

\* impl Bind for Box<[Expression]>
bind_slice(es, bs) ==
  IF Len(es) = 0 THEN <<>>
  ELSE (IF es[1].k = "Atom" /\ es[1].s \in DOMAIN bs /\ bs[es[1].s].k = "Sequence"
        THEN [i \in 1..Len(bs[es[1].s].es) |-> clone(bs[es[1].s].es[i])]
        ELSE <<bind(es[1], bs)>>)
       \o bind_slice(Tail(es), bs)

(***************************************************************************)
(* expression/mod.rs: the rewriter                                         *)
(***************************************************************************)
RECURSIVE replace_rec(_, _, _)

\* replace_rec gone wrong: the children are rewritten before the node itself
\* is matched (innermost first)
replace_rec_InnermostFirst(x, pat, tmpl) ==
  LET rs == [i \in 1..Len(x.es) |-> replace_rec(x.es[i], pat, clone(tmpl))]
      y == IF x.k = "List" THEN List([i \in 1..Len(x.es) |-> rs[i].v]) ELSE clone(x)
      m == match_pattern(y, pat)
  IN  IF m.some THEN [v |-> bind(tmpl, m.bs), replaced |-> TRUE]
      ELSE [v |-> y, replaced |-> \E i \in 1..Len(x.es) : rs[i].replaced]

\* Expression::replace_rec: the pair (Expression, bool)
replace_rec(x, pat, tmpl) ==
  LET m == match_pattern(x, pat)
  IN  IF m.some THEN [v |-> bind(tmpl, m.bs), replaced |-> TRUE]
      ELSE IF x.k = "List"
      THEN LET rs == [i \in 1..Len(x.es) |-> replace_rec(x.es[i], pat, clone(tmpl))]
           IN  [v |-> List([i \in 1..Len(x.es) |-> rs[i].v]),
                replaced |-> \E i \in 1..Len(x.es) : rs[i].replaced]
      ELSE [v |-> clone(x), replaced |-> FALSE]

\* replace gone wrong: the rule is applied anywhere in the subject
replace_Anywhere(x, pat, tmpl) ==
  LET r == replace_rec(x, pat, tmpl)
  IN  IF r.replaced THEN SomeTree(r.v) ELSE NoTree

\* Expression::replace
replace(x, pat, tmpl) ==
  LET m == match_pattern(x, pat)
  IN  IF m.some THEN SomeTree(bind(tmpl, m.bs)) ELSE NoTree

\* Expression::replace_all
replace_all(x, pat, tmpl) == replace_rec(x, pat, tmpl).v

\* let mut limit = 1000;
Limit == 1000

(***************************************************************************)
(* Inputs of the matcher.                                                  *)
(***************************************************************************)
SeqsUpTo(S, n) == UNION {[1..m -> S] : m \in 0..n}

SubjElems == {Atom("1"), Atom("2"), List(<<>>), List(<<Atom("1")>>)}
Subjects == SubjElems \cup {List(es) : es \in SeqsUpTo(SubjElems, MaxSubjLen)}

PatLeaves ==
  {Blank, BlankSeq, BlankNullSeq,
   Pattern("x"), PatternSeq("x"), PatternNullSeq("x"),
   Pattern("y"), PatternSeq("y"), PatternNullSeq("y"),
   Atom("1")}
PatElems ==
  PatLeaves \cup {List(<<BlankNullSeq, Atom("1")>>), List(<<Pattern("x"), Atom("1")>>)}
Patterns == PatElems \cup {List(ps) : ps \in SeqsUpTo(PatElems, MaxPatLen)}

(***************************************************************************)
(* The matcher run on one subject and one pattern.                         *)
(***************************************************************************)
Init ==
  /\ op = "match_pattern"
  /\ e \in Subjects
  /\ p \in Patterns
  /\ t = Blank
  /\ pc = "start"
  /\ mres = NoBindings
  /\ ret = NoTree
  /\ expr = Blank
  /\ limit = 0
  /\ replaced = FALSE
  /\ input = <<>>
  /\ pres = NotParsed

Match ==
  /\ pc = "start"
  /\ op = "match_pattern"
  /\ mres' = match_pattern(e, p)
  /\ pc' = "done"
  /\ UNCHANGED <<op, e, p, t, ret, expr, limit, replaced, input, pres>>

Next == Match

Spec == Init /\ [][Next]_vars

(***************************************************************************)
(* Inputs of the rewriter.                                                 *)
(***************************************************************************)
RwAtoms == {Atom("x"), Atom("z")}
RwElems == RwAtoms \cup {List(es) : es \in SeqsUpTo(RwAtoms, MaxRwLen)}
Nested == List(<<Atom("x"), List(<<Atom("x"), List(<<Atom("x"), Atom("z")>>)>>)>>)
Pair == List(<<List(<<Atom("x"), Atom("r")>>), List(<<Atom("x"), Atom("s")>>)>>)
\* subjects of replace and replace_all
RwSubjects ==
  RwElems \cup {List(es) : es \in SeqsUpTo(RwElems, MaxRwLen)} \cup {Nested, Pair}
\* subjects of replace_repeated
RepSubjects ==
  {Atom("x"), Atom("z"), List(<<>>), List(<<Atom("x"), Atom("z")>>),
   List(<<Atom("z"), Atom("x")>>), Nested, Pair}
\* the rules: a pattern and a template
Rules ==
  {<<List(<<Atom("x"), Pattern("a")>>), List(<<Atom("y"), Atom("a")>>)>>,
   <<List(<<Atom("x"), Pattern("a")>>), List(<<Atom("x"), Atom("a")>>)>>,
   <<List(<<Atom("x"), Pattern("a")>>), Atom("a")>>,
   <<List(<<Atom("x"), PatternNullSeq("a")>>), List(<<Atom("y"), Atom("a")>>)>>,
   <<List(<<PatternSeq("a"), Atom("x")>>), List(<<Atom("x"), Atom("a")>>)>>,
   <<Pattern("x"), List(<<Atom("x"), Atom("x")>>)>>,
   <<Pattern("x"), Atom("x")>>,
   <<Pattern("a"), Atom("y")>>,
   <<Blank, Atom("z")>>,
   <<Atom("x"), Atom("z")>>}

(***************************************************************************)
(* The rewriter: one call of replace or replace_all.                       *)
(***************************************************************************)
InitRewrite ==
  /\ op \in {"replace", "replace_all"}
  /\ e \in RwSubjects
  /\ \E r \in Rules : p = r[1] /\ t = r[2]
  /\ pc = "start"
  /\ mres = NoBindings
  /\ ret = NoTree
  /\ expr = Blank
  /\ limit = 0
  /\ replaced = FALSE
  /\ input = <<>>
  /\ pres = NotParsed

Replace ==
  /\ pc = "start"
  /\ op = "replace"
  /\ ret' = replace(e, p, t)
  /\ pc' = "done"
  /\ UNCHANGED <<op, e, p, t, mres, expr, limit, replaced, input, pres>>

ReplaceAll ==
  /\ pc = "start"
  /\ op = "replace_all"
  /\ ret' = SomeTree(replace_all(e, p, t))
  /\ pc' = "done"
  /\ UNCHANGED <<op, e, p, t, mres, expr, limit, replaced, input, pres>>

NextRewrite == Replace \/ ReplaceAll

SpecRewrite == InitRewrite /\ [][NextRewrite]_vars

(***************************************************************************)
(* The rewriter: one call of replace_repeated, which takes one step for    *)
(* each pass of its loop.                                                  *)
(***************************************************************************)
InitRepeated ==
  /\ op = "replace_repeated"
  /\ e \in RepSubjects
  /\ \E r \in Rules : p = r[1] /\ t = r[2]
  /\ pc = "start"
  /\ mres = NoBindings
  /\ ret = NoTree
  /\ expr = Blank
  /\ limit = 0
  /\ replaced = FALSE
  /\ input = <<>>
  /\ pres = NotParsed

\* let mut limit = 1000; let mut expr = self.clone();
RepeatedStart ==
  /\ pc = "start"
  /\ op = "replace_repeated"
  /\ limit' = Limit
  /\ expr' = clone(e)
  /\ pc' = "loop"
  /\ UNCHANGED <<op, e, p, t, mres, ret, replaced, input, pres>>

\* the root arms of match_expression that do not look into the subject
RootBlind == {"Blank", "BlankSeq", "BlankNullSeq", "Pattern"}

\* the loop gone wrong: limit is not counted down
RepeatedPass_NoCountdown ==
  /\ pc = "loop"
  /\ limit >= 0
  /\ expr = TooBig => p.k \in RootBlind
  /\ limit' = limit
  /\ LET r == replace_rec(expr, p, clone(t))
     IN  /\ replaced' = r.replaced
         /\ IF ~r.replaced
            THEN ret' = SomeTree(r.v) /\ pc' = "returned" /\ expr' = expr
            ELSE expr' = Kept(r.v) /\ pc' = "loop" /\ ret' = ret
  /\ UNCHANGED <<op, e, p, t, mres, input, pres>>

\* the loop gone wrong: the tree of the first pass is returned, changed or not
RepeatedPass_OnePass ==
  /\ pc = "loop"
  /\ limit >= 0
  /\ expr = TooBig => p.k \in RootBlind
  /\ limit' = limit - 1
  /\ LET r == replace_rec(expr, p, clone(t))
     IN  /\ replaced' = r.replaced
         /\ ret' = SomeTree(Kept(r.v)) /\ pc' = "returned" /\ expr' = expr
  /\ UNCHANGED <<op, e, p, t, mres, input, pres>>

\* one iteration of while limit >= 0 { .. }
RepeatedPass ==
  /\ pc = "loop"
  /\ limit >= 0
  /\ expr = TooBig => p.k \in RootBlind
  /\ limit' = limit - 1
  /\ LET r == replace_rec(expr, p, clone(t))
     IN  /\ replaced' = r.replaced
         /\ IF ~r.replaced
            THEN ret' = SomeTree(r.v) /\ pc' = "returned" /\ expr' = expr
            ELSE expr' = Kept(r.v) /\ pc' = "loop" /\ ret' = ret
  /\ UNCHANGED <<op, e, p, t, mres, input, pres>>

\* the end of the loop gone wrong: the tree reached so far is returned
RepeatedPanic_ReturnsTree ==
  /\ pc = "loop"
  /\ ~(limit >= 0)
  /\ pc' = "returned"
  /\ ret' = SomeTree(expr)
  /\ UNCHANGED <<op, e, p, t, mres, expr, limit, replaced, input, pres>>

\* panic!("replacement limit reached!")
RepeatedPanic ==
  /\ pc = "loop"
  /\ ~(limit >= 0)
  /\ pc' = "panicked"
  /\ UNCHANGED <<op, e, p, t, mres, ret, expr, limit, replaced, input, pres>>

NextRepeated == RepeatedStart \/ RepeatedPass \/ RepeatedPanic

SpecRepeated == InitRepeated /\ [][NextRepeated]_vars

\* the loop is sequential code: it takes its next step whenever it has one
SpecRepeatedFair == SpecRepeated /\ WF_vars(NextRepeated)

(***************************************************************************)
(* The binder: one call of bind on a template and a map of bindings.  The  *)
(* map is one a match can have produced: each of the names a and b is      *)
(* unbound, bound to one expression, or bound to a run of expressions.     *)
(***************************************************************************)
BoundValues == {Atom("1"), Atom("2"), List(<<Atom("1")>>)}
BindingsOfName ==
  {BindingExpression(x) : x \in BoundValues}
    \cup {BindingSequence(xs) : xs \in SeqsUpTo(BoundValues, MaxRunLen)}
BindMaps ==
  UNION {[D -> BindingsOfName] : D \in SUBSET {"a", "b"}}
TplElems ==
  {Atom("a"), Atom("b"), Atom("c"), List(<<Atom("a"), Atom("c")>>), Blank}
Templates == TplElems \cup {List(es) : es \in SeqsUpTo(TplElems, MaxTplLen)}

InitBind ==
  /\ op = "bind"
  /\ e = Blank
  /\ p = Blank
  /\ t \in Templates
  /\ pc = "start"
  /\ \E bs \in BindMaps : mres = [some |-> TRUE, bs |-> bs]
  /\ ret = NoTree
  /\ expr = Blank
  /\ limit = 0
  /\ replaced = FALSE
  /\ input = <<>>
  /\ pres = NotParsed

\* template.bind(&bs)
Bind ==
  /\ pc = "start"
  /\ op = "bind"
  /\ ret' = SomeTree(bind(t, mres.bs))
  /\ pc' = "done"
  /\ UNCHANGED <<op, e, p, t, mres, expr, limit, replaced, input, pres>>

NextBind == Bind

SpecBind == InitBind /\ [][NextBind]_vars

(***************************************************************************)
(* The parser.  A text is the sequence of its characters; a Parser is the  *)
(* character under the cursor (ch) and the characters still to come       *)
(* (iter).  Every parse function gives back the parser it leaves behind    *)
(* (self) and its Result: res is "Ok" or the error, v the tree.  The       *)
(* String of an Atom or a variable read from a text is the sequence of its *)
(* characters.                                                             *)
(***************************************************************************)
\* Option<char>::None, the end of the text
NoChar == "None"

\* Ok(v) and Err(code)
Ok(self, v) == [self |-> self, res |-> "Ok", v |-> v]
Err(self, code) == [self |-> self, res |-> code, v |-> Blank]

bump(self) ==
  IF Len(self.iter) = 0 THEN [ch |-> NoChar, iter |-> <<>>]
  ELSE [ch |-> Head(self.iter), iter |-> Tail(self.iter)]

Parser_new(it) == bump([ch |-> NoChar, iter |-> it])

ch_is_whitespace(self) == self.ch = " "

ch_is_terminator(self) ==
  \/ ch_is_whitespace(self)
  \/ self.ch = "("
  \/ self.ch = ")"
  \/ self.ch = NoChar

RECURSIVE skip_whitespace(_)
skip_whitespace(self) ==
  IF ch_is_whitespace(self) THEN skip_whitespace(bump(self)) ELSE self

parse_blank_null_seq(self) ==
  IF ~ch_is_terminator(self) THEN Err(self, "InvalidPattern")
  ELSE Ok(self, BlankNullSeq)

parse_blank_seq(self) ==
  IF self.ch = "_" THEN parse_blank_null_seq(bump(self))
  ELSE IF ~ch_is_terminator(self) THEN Err(self, "InvalidPattern")
  ELSE Ok(self, BlankSeq)

parse_blank(self) ==
  IF self.ch = "_" THEN parse_blank_seq(bump(self))
  ELSE IF ~ch_is_terminator(self) THEN Err(self, "InvalidPattern")
  ELSE Ok(self, Blank)

parse_pattern_null_seq(self, s) ==
  IF ~ch_is_terminator(self) THEN Err(self, "InvalidPattern")
  ELSE Ok(self, PatternNullSeq(s))

parse_pattern_seq(self, s) ==
  IF self.ch = "_" THEN parse_pattern_null_seq(bump(self), s)
  ELSE IF ~ch_is_terminator(self) THEN Err(self, "InvalidPattern")
  ELSE Ok(self, PatternSeq(s))

parse_pattern(self, s) ==
  IF self.ch = "_" THEN parse_pattern_seq(bump(self), s)
  ELSE IF ~ch_is_terminator(self) THEN Err(self, "InvalidPattern")
  ELSE Ok(self, Pattern(s))

\* parse_atomic, from the top of its loop with s read so far
RECURSIVE atomic_loop(_, _)
atomic_loop(self, s) ==
  IF ch_is_terminator(self)
    THEN IF Len(s) = 0 THEN Err(self, "InternalError") ELSE Ok(self, Atom(s))
  ELSE IF self.ch = "_"
    THEN IF Len(s) = 0 THEN parse_blank(bump(self))
         ELSE parse_pattern(bump(self), s)
  ELSE atomic_loop(bump(self), Append(s, self.ch))

parse_atomic(self) == atomic_loop(self, <<>>)

RECURSIVE parse_expression(_), list_loop(_, _)
\* parse_list, from the top of its loop with the children v read so far
list_loop(self0, v) ==
  LET self == skip_whitespace(self0) IN
  IF self.ch = ")" THEN Ok(bump(self), List(v))
  ELSE IF self.ch = NoChar THEN Err(self, "UnbalancedParens")
  ELSE LET r == parse_expression(self) IN
       IF r.res # "Ok" THEN r ELSE list_loop(r.self, Append(v, r.v))

parse_list(self) == list_loop(bump(self), <<>>)

parse_expression(self) ==
  IF self.ch = "(" THEN parse_list(self)
  ELSE IF self.ch = ")" THEN Err(self, "UnbalancedParens")
  ELSE IF self.ch = NoChar THEN Err(self, "EmptyInput")
  ELSE parse_atomic(self)

parse(self) == parse_expression(skip_whitespace(self))

\* impl FromStr for Expression
from_str(s) ==
  LET r == parse(Parser_new(s)) IN [res |-> r.res, v |-> r.v]

\* longest text handed to the parser
MaxInputLen == 5
Chars == {"(", ")", " ", "a", "_"}
Inputs == SeqsUpTo(Chars, MaxInputLen)

InitParse ==
  /\ op = "parse"
  /\ e = Blank
  /\ p = Blank
  /\ t = Blank
  /\ pc = "start"
  /\ mres = NoBindings
  /\ ret = NoTree
  /\ expr = Blank
  /\ limit = 0
  /\ replaced = FALSE
  /\ input \in Inputs
  /\ pres = NotParsed

\* input.parse::<Expression>()
Parse ==
  /\ pc = "start"
  /\ op = "parse"
  /\ pres' = from_str(input)
  /\ pc' = "done"
  /\ UNCHANGED <<op, e, p, t, mres, ret, expr, limit, replaced, input>>

NextParse == Parse

SpecParse == InitParse /\ [][NextParse]_vars

(***************************************************************************)
(* What matching means, stated without the search: a pattern node matches  *)
(* a subject node when the pattern's wildcards and variables can be given  *)
(* values (one node for Blank/Pattern, a run of >= 1 nodes for the Seq     *)
(* kinds, a run of >= 0 nodes for the NullSeq kinds) that make it equal to *)
(* the subject.  Every occurrence of a variable is given its own value.    *)
(***************************************************************************)
SeqKinds == {"BlankSeq", "BlankNullSeq", "PatternSeq", "PatternNullSeq"}
NullKinds == {"BlankNullSeq", "PatternNullSeq"}
NamedKinds == {"Pattern", "PatternSeq", "PatternNullSeq"}
WildKinds == SeqKinds \cup {"Blank", "Pattern"}

RECURSIVE Matches(_, _)
RECURSIVE SeqMatches(_, _)
Matches(x, pat) ==
  CASE pat.k \in WildKinds -> TRUE
    [] pat.k = "Atom" -> x.k = "Atom" /\ x.s = pat.s
    [] pat.k = "List" -> x.k = "List" /\ SeqMatches(x.es, pat.es)
    [] OTHER -> FALSE
SeqMatches(es, ps) ==
  IF Len(ps) = 0 THEN Len(es) = 0
  ELSE LET lo == IF ps[1].k \in NullKinds THEN 0 ELSE 1
           hi == IF ps[1].k \in SeqKinds THEN Len(es) ELSE 1
       IN  \E i \in lo..hi :
             /\ i <= Len(es)
             /\ ps[1].k \notin SeqKinds => Matches(es[1], ps[1])
             /\ SeqMatches(SliceFrom(es, i), Tail(ps))

\* A split of es along ps: the number of elements each pattern element takes.
RECURSIVE SumTo(_, _)
SumTo(f, n) == IF n = 0 THEN 0 ELSE f[n] + SumTo(f, n - 1)
ValidSplits(es, ps) ==
  {f \in [1..Len(ps) -> 0..Len(es)] :
     /\ SumTo(f, Len(ps)) = Len(es)
     /\ \A j \in 1..Len(ps) :
          /\ ps[j].k \notin NullKinds => f[j] >= 1
          /\ ps[j].k \notin SeqKinds =>
               f[j] = 1 /\ Matches(es[SumTo(f, j - 1) + 1], ps[j])}
LexLess(f, g) ==
  \E j \in DOMAIN f : f[j] < g[j] /\ \A i \in 1..(j - 1) : f[i] = g[i]
LexMin(S) == CHOOSE f \in S : \A g \in S : g = f \/ LexLess(f, g)

\* the variable names of a pattern
RECURSIVE NamesOf(_)
NamesOf(pat) ==
  IF pat.k \in NamedKinds THEN {pat.s}
  ELSE IF pat.k = "List" THEN UNION {NamesOf(pat.es[j]) : j \in 1..Len(pat.es)}
  ELSE {}
\* every sequence element of ps is a named variable, and no name occurs twice
SplitIsVisible(ps) ==
  /\ \A j \in 1..Len(ps) : ps[j].k \notin {"BlankSeq", "BlankNullSeq"}
  /\ \A i, j \in 1..Len(ps) : i # j => NamesOf(ps[i]) \cap NamesOf(ps[j]) = {}
\* the split a returned map shows: the length of each bound run
SplitOf(ps, bs) ==
  [j \in 1..Len(ps) |->
     IF ps[j].k \in SeqKinds /\ ps[j].s \in DOMAIN bs THEN Len(bs[ps[j].s].es) ELSE 1]

(***************************************************************************)
(* Claims about the matcher.                                               *)
(***************************************************************************)
MatchDone == op = "match_pattern" /\ pc = "done"

\* C1: match_pattern(e, p) returns Some(bindings) if and only if some
\* assignment of p's wildcards and variables makes p identical to e.
C1_MatchIffAssignment == MatchDone => (mres.some <=> Matches(e, p))

\* C2: with a BlankNullSeq or PatternNullSeq at the head of the pattern list,
\* a match is accepted only if for some consumed length 0..len the pattern
\* tail matches the remaining subject elements, also when no subject
\* elements remain.
C2_NullSeqTailChecked ==
  (/\ MatchDone
   /\ e.k = "List" /\ p.k = "List" /\ Len(p.es) > 0
   /\ p.es[1].k \in NullKinds
   /\ mres.some)
  => \E i \in 0..Len(e.es) :
       match_seq(SliceFrom(e.es, i), Tail(p.es), HashMap_new).ok

\* C3: a pattern that is itself a named variable of any of the three kinds
\* matches every subject and binds its name to that single subject.
C3_StandaloneVariableMatches ==
  (MatchDone /\ p.k \in NamedKinds)
  => /\ mres.some
     /\ mres.bs = insert(HashMap_new, p.s, BindingExpression(e))

\* C4: when several splits of the subject list satisfy the list pattern,
\* the returned bindings show the lexicographically smallest split.
C4_LexSmallestSplit ==
  (/\ MatchDone
   /\ e.k = "List" /\ p.k = "List"
   /\ SplitIsVisible(p.es)
   /\ Cardinality(ValidSplits(e.es, p.es)) >= 2)
  => /\ mres.some
     /\ SplitOf(p.es, mres.bs) = LexMin(ValidSplits(e.es, p.es))

(***************************************************************************)
(* Claims about the rewriter.                                              *)
(***************************************************************************)
Repeated == op = "replace_repeated"
\* the passes replace_repeated has run so far
Passes == IF pc = "start" THEN 0 ELSE Limit - limit
Finished == pc \in {"done", "returned", "panicked"}
\* every tree whose shape is not kept is rewritten by a rule that does not
\* look into it, so that RepeatedPass is never held back
ShapeNeverNeeded == (pc = "loop" /\ expr = TooBig) => p.k \in RootBlind

\* C5: replace_repeated never runs more than 1000 passes: it aborts as soon
\* as 1000 passes have reported a change.
C5_AtMostLimitPasses == Repeated => Passes <= 1000

\* C6, as claimed: when the bound is exceeded the call ends by returning a
\* distinguished failure value, which is no tree, to its caller.
C6_FailureIsReturned ==
  (Repeated /\ Finished /\ limit < 0 /\ replaced)
  => (pc = "returned" /\ ~ret.some)

\* C6, amended: when the bound is exceeded the call ends in a panic and no
\* value, neither a tree nor a failure value, is returned.
C6_FailureIsPanic ==
  (Repeated /\ Finished /\ limit < 0 /\ replaced)
  => (pc = "panicked" /\ ret = NoTree)
C6_Witness == Repeated /\ pc = "panicked" /\ limit < 0 /\ replaced

\* C7: whenever a pass yields a tree equal to the tree it was applied to,
\* replace_repeated stops and returns that tree.
C7_StopsWhenUnchanged ==
  [][(/\ Repeated /\ pc = "loop" /\ limit >= 0 /\ expr # TooBig
      /\ replace_rec(expr, p, t).v = expr)
     => (pc' = "returned" /\ ret' = SomeTree(expr))]_vars

\* C8: replace_repeated always finishes after a bounded number of passes,
\* by returning a tree or by the limit-reached panic, and never loops
\* indefinitely: a call that has not finished always has a step that changes
\* its state, every pass counts limit down, and limit never goes below -1, so
\* that at most Limit + 1 passes are run; on subject x, pattern x_ and
\* template (x x) the call finishes by the panic.
Scenario6 ==
  /\ Repeated
  /\ e = Atom("x") /\ p = Pattern("x") /\ t = List(<<Atom("x"), Atom("x")>>)
C8_Terminates ==
  /\ [](Finished \/ ENABLED <<NextRepeated>>_vars)
  /\ [][(pc = "loop" /\ pc' # "panicked") => limit' < limit]_vars
  /\ [](Repeated /\ pc # "start" => limit >= -1 /\ Passes <= Limit + 1)
  /\ [](Repeated /\ Finished => (pc = "returned" /\ ret.some) \/ pc = "panicked")
  /\ [](Scenario6 /\ Finished => pc = "panicked")
\* the same as a liveness property of SpecRepeatedFair
C8_EventuallyFinished == <>Finished /\ (Scenario6 => <>(pc = "panicked"))
C8_Witness == Scenario6 /\ pc = "panicked"

\* C9: replace_all replaces exactly the outermost matching nodes.  A node
\* that matches becomes bind(template, bindings), which is not rewritten
\* again; a List that does not match is rebuilt from its rewritten children
\* in order; any other node that does not match stays as it is.
RECURSIVE OutermostReplaced(_, _)
OutermostReplaced(n, r) ==
  IF match_pattern(n, p).some THEN r = bind(t, match_pattern(n, p).bs)
  ELSE IF n.k = "List"
  THEN /\ r.k = "List"
       /\ Len(r.es) = Len(n.es)
       /\ \A i \in 1..Len(n.es) : OutermostReplaced(n.es[i], r.es[i])
  ELSE r = n
C10_ReplaceRootOnly ==
  (op = "replace" /\ pc = "done")
  => /\ ret.some <=> match_pattern(e, p).some
     /\ ret.some => ret.v = bind(t, match_pattern(e, p).bs)
     /\ ~ret.some => ret = NoTree
\* ((x r) (x s)) under (x a_): both children match, the root does not
C10_Witness ==
  /\ op = "replace" /\ pc = "done"
  /\ e = Pair /\ p = List(<<Atom("x"), Pattern("a")>>)
  /\ match_pattern(e.es[1], p).some
  /\ ret = NoTree

(***************************************************************************)
(* Claims about the binder.                                                *)
(***************************************************************************)
BindDone == op = "bind" /\ pc = "done"
\* the children of the template list that are atoms bound to a run
SplicedAt(es, bs) ==
  {j \in 1..Len(es) :
     es[j].k = "Atom" /\ es[j].s \in DOMAIN bs /\ bs[es[j].s].k = "Sequence"}
TheSplice == CHOOSE j \in SplicedAt(t.es, mres.bs) : TRUE
TheRun == mres.bs[t.es[TheSplice].s].es

\* C11: binding a template List with exactly one child that is an atom bound
\* to a run of k elements gives a List of the template's length plus k - 1:
\* the children before the atom, each bound and kept as one element, then
\* the k elements of the run in order, then the children after the atom.
C11_SpliceArithmetic ==
  (BindDone /\ t.k = "List" /\ Cardinality(SplicedAt(t.es, mres.bs)) = 1)
  => /\ ret.some
     /\ ret.v.k = "List"
     /\ Len(ret.v.es) = Len(t.es) + Len(TheRun) - 1
     /\ \A i \in 1..(TheSplice - 1) : ret.v.es[i] = bind(t.es[i], mres.bs)
     /\ \A m \in 1..Len(TheRun) : ret.v.es[TheSplice - 1 + m] = TheRun[m]
     /\ \A i \in (TheSplice + 1)..Len(t.es) :
          ret.v.es[i + Len(TheRun) - 1] = bind(t.es[i], mres.bs)
\* (c a b) with a bound to a run of two and b to one expression
C11_Witness ==
  /\ BindDone
  /\ t = List(<<Atom("c"), Atom("a"), Atom("b")>>)
  /\ DOMAIN mres.bs = {"a", "b"}
  /\ mres.bs["a"] = BindingSequence(<<Atom("1"), Atom("2")>>)
  /\ mres.bs["b"] = BindingExpression(List(<<Atom("1")>>))
  /\ ret.v = List(<<Atom("c"), Atom("1"), Atom("2"), List(<<Atom("1")>>)>>)

(***************************************************************************)
(* Claims about the parser.                                                *)
(***************************************************************************)
ParseDone == op = "parse" /\ pc = "done"
Count(s, c, n) == Cardinality({i \in 1..n : s[i] = c})
\* a close-paren with no list open at that point
StrayClose(s) == \E n \in 1..Len(s) : Count(s, ")", n) > Count(s, "(", n)
\* the text ends while a list is still open
OpenAtEnd(s) == Count(s, "(", Len(s)) > Count(s, ")", Len(s))
Unbalanced(s) == StrayClose(s) \/ OpenAtEnd(s)

\* C12: every text whose parentheses are unbalanced (a close-paren with no
\* list open, anywhere in the text, or a list still open at the end) is
\* answered with the unbalanced-parentheses error, never with a tree.
\* Violated by "a)": parse stops after the atom a and gives Ok.
C12_UnbalancedIsReported ==
  (ParseDone /\ Unbalanced(input)) => pres.res = "UnbalancedParens"

(***************************************************************************)
(* The successful path of a match.  The same search as match_expression    *)
(* and match_seq, taking the same branches, but a call that fails gives    *)
(* back the map it was handed: what a failed element or a failed candidate *)
(* of a sequence wildcard wrote is dropped.  The map of a successful call  *)
(* then holds exactly what the steps leading to the success wrote.         *)
(***************************************************************************)
RECURSIVE path_expression(_, _, _)
RECURSIVE path_seq(_, _, _)
RECURSIVE path_blank_for(_, _, _, _)
RECURSIVE path_pattern_for(_, _, _, _, _)

path_blank_for(es, ps, bs, i) ==
  IF i > Len(es) THEN [ok |-> FALSE, bs |-> bs]
  ELSE LET r == path_seq(SliceFrom(es, i), Tail(ps), bs)
       IN  IF r.ok THEN r ELSE path_blank_for(es, ps, bs, i + 1)

path_pattern_for(es, ps, bs, s, i) ==
  IF i > Len(es) THEN [ok |-> FALSE, bs |-> bs]
  ELSE LET h == insert(HashMap_new, s, BindingSequence(SliceTo(es, i)))
           r == path_seq(SliceFrom(es, i), Tail(ps), h)
       IN  IF r.ok THEN [ok |-> TRUE, bs |-> insert_all(bs, r.bs)]
           ELSE path_pattern_for(es, ps, bs, s, i + 1)

path_expression(x, pat, bs) ==
  CASE pat.k \in {"Blank", "BlankSeq", "BlankNullSeq"} -> [ok |-> TRUE, bs |-> bs]
    [] pat.k = "Pattern" ->
         [ok |-> TRUE, bs |-> insert(bs, pat.s, BindingExpression(x))]
    [] x.k = "Atom" /\ pat.k = "Atom" -> [ok |-> x.s = pat.s, bs |-> bs]
    [] x.k = "List" /\ pat.k = "List" -> path_seq(x.es, pat.es, bs)
    [] OTHER -> [ok |-> FALSE, bs |-> bs]

path_seq(es, ps, bs) ==
  IF Len(ps) = 0 THEN [ok |-> Len(es) = 0, bs |-> bs]
  ELSE CASE ps[1].k = "BlankSeq" -> path_blank_for(es, ps, bs, 1)
         [] ps[1].k = "BlankNullSeq" ->
              IF Len(es) = 0 THEN [ok |-> TRUE, bs |-> bs]
              ELSE path_blank_for(es, ps, bs, 0)
         [] ps[1].k = "PatternSeq" -> path_pattern_for(es, ps, bs, ps[1].s, 1)
         [] ps[1].k = "PatternNullSeq" ->
              IF Len(es) = 0
              THEN [ok |-> TRUE, bs |-> insert(bs, ps[1].s, BindingSequence(es))]
              ELSE path_pattern_for(es, ps, bs, ps[1].s, 0)
         [] OTHER ->
              IF Len(es) = 0 THEN [ok |-> FALSE, bs |-> bs]
              ELSE LET r == path_expression(es[1], ps[1], bs)
                       q == path_seq(Tail(es), Tail(ps), r.bs)
                   IN  IF r.ok /\ q.ok THEN q ELSE [ok |-> FALSE, bs |-> bs]

PathBindings(x, pat) == path_expression(x, pat, HashMap_new).bs

\* C13: every entry of the map a successful match_pattern returns was written
\* on the successful path; nothing written while trying an element or a
\* candidate that failed is left in it.
C13_NoLeakedBindings ==
  (MatchDone /\ mres.some)
  => \A n \in DOMAIN mres.bs :
       /\ n \in DOMAIN PathBindings(e, p)
       /\ mres.bs[n] = PathBindings(e, p)[n]

(***************************************************************************)
(* The pattern with every variable occurrence given a name of its own, in  *)
(* the order the matcher walks the pattern (left to right, a list before   *)
(* what follows it).                                                       *)
(***************************************************************************)
OccName == <<"v1", "v2", "v3", "v4", "v5", "v6", "v7", "v8">>

\* the variable names of a pattern, one entry per occurrence, in walk order
RECURSIVE Occs(_)
RECURSIVE OccsAll(_)
Occs(pat) ==
  IF pat.k \in NamedKinds THEN <<pat.s>>
  ELSE IF pat.k = "List" THEN OccsAll(pat.es)
  ELSE <<>>
OccsAll(ps) == IF Len(ps) = 0 THEN <<>> ELSE Occs(ps[1]) \o OccsAll(Tail(ps))

\* pat with its occurrences renamed to OccName[k + 1], OccName[k + 2], ...
RECURSIVE Distinct(_, _)
RECURSIVE DistinctAll(_, _)
Distinct(pat, k) ==
  IF pat.k \in NamedKinds THEN [pat EXCEPT !.s = OccName[k + 1]]
  ELSE IF pat.k = "List" THEN List(DistinctAll(pat.es, k))
  ELSE pat
DistinctAll(ps, k) ==
  IF Len(ps) = 0 THEN <<>>
  ELSE <<Distinct(ps[1], k)>> \o DistinctAll(Tail(ps), k + Len(Occs(ps[1])))

OccsOf(pat, n) == {k \in 1..Len(Occs(pat)) : Occs(pat)[k] = n}
Repeats(pat) == {n \in NamesOf(pat) : Cardinality(OccsOf(pat, n)) > 1}
LastOcc(pat, n) == CHOOSE k \in OccsOf(pat, n) : \A j \in OccsOf(pat, n) : j <= k

\* C14: when a variable name occurs more than once in the pattern, no
\* equality is checked between the occurrences: the match succeeds exactly
\* when it succeeds with every occurrence named differently, and the map
\* binds the name to what the rightmost occurrence matched.
C14_LaterOccurrenceWins ==
  (MatchDone /\ Repeats(p) # {})
  => LET m == match_pattern(e, Distinct(p, 0)) IN
     /\ mres.some = m.some
     /\ mres.some =>
          \A n \in Repeats(p) :
            /\ n \in DOMAIN mres.bs
            /\ OccName[LastOcc(p, n)] \in DOMAIN m.bs
            /\ mres.bs[n] = m.bs[OccName[LastOcc(p, n)]]

\* C15: the map of a successful match has exactly the variable names of the
\* pattern as its keys: every name occurring in the pattern is a key, and
\* nothing else is.
C15_KeysAreThePatternNames ==
  (MatchDone /\ mres.some) => DOMAIN mres.bs = NamesOf(p)

(***************************************************************************)
(* Claims about what replace_repeated returns.                             *)
(***************************************************************************)
\* x and everything reached from x by descending through List children
RECURSIVE SubExprs(_)
SubExprs(x) ==
  IF x.k = "List"
  THEN {x} \cup UNION {SubExprs(x.es[j]) : j \in 1..Len(x.es)}
  ELSE {x}

\* C16: a tree replace_repeated returns is a normal form of the rule: neither
\* the tree nor anything reached from it through List children matches the
\* pattern, and one more replace_all pass gives back an equal tree.
C16_ReturnedIsNormalForm ==
  (Repeated /\ pc = "returned")
  => /\ ret.some
     /\ \A x \in SubExprs(ret.v) : ~match_pattern(x, p).some
     /\ replace_all(ret.v, p, t) = ret.v
\* (x (x (x z))) under (x a_) -> (y a): three passes rewrite, the fourth
\* finds nothing and (y (y (y z))) is returned
C16_Witness ==
  /\ Repeated
  /\ pc = "returned"
  /\ e = Nested
  /\ p = List(<<Atom("x"), Pattern("a")>>)
  /\ Passes = 4
  /\ ret.v = List(<<Atom("y"), List(<<Atom("y"), List(<<Atom("y"), Atom("z")>>)>>)>>)
====
